---------------------------- MODULE Spec2Model ----------------------------
(***************************************************************************)
(* The health-check engine of monitor.py: the Target registry, the two     *)
(* probes (check_ping, check_tcp), the CSV log (log_result), the cycle     *)
(* runner (run_one_cycle) and its caller (index).                          *)
(*                                                                         *)
(* Representation.                                                         *)
(*   Optional[x]   the empty sequence << >> is None, << v >> is the value v*)
(*   last_rtt_ms   a latency, held in nanoseconds (1 ms = 1000000)         *)
(*   packet_loss   held in percent (1.0 = 100)                             *)
(*   the clock     a natural number; it never goes backwards               *)
(***************************************************************************)
EXTENDS Naturals, Sequences, FiniteSets, TLC

VARIABLES
    TARGETS,    \* the registry: a sequence of Target records
    logFile,    \* LOG_PATH: whether the file exists, and its rows
    clock,      \* the wall clock read by time.time() and datetime.utcnow()
    pc,         \* "idle", or "cycle" while a call of run_one_cycle is running
    idx,        \* the position of run_one_cycle's for loop in TARGETS
    cycles,     \* the number of calls of run_one_cycle started
    raised,     \* whether the last call of run_one_cycle ended by an exception
    probed,     \* the positions probed by the current (or last) call, in order
    netcalls,   \* per position, the calls of ping() and create_connection made
    nprobes,    \* the probes that returned, and those that raised
    outcomes,   \* per position, every status appended to the history, in order
    last,       \* the last probe: its position, its inputs, and the state before
    calls,      \* the current (or last) call of run_one_cycle and the one before:
                \* the results its probes saw, and the state it left
    page,       \* what index last rendered: the targets and their uptime
    th,         \* concurrent requests: where each thread is in its cycle
    seen,       \* concurrent requests: the targets as a thread last read them
    world       \* the environment of the run: how a log write may end, how far
                \* the clock may move during a probe, the last cycle observed,
                \* the sample counts check_ping is called with

vars == << TARGETS, logFile, clock, pc, idx, cycles, raised, probed, netcalls,
           nprobes, outcomes, last, calls, page, th, seen, world >>

-----------------------------------------------------------------------------
(* Bounds of the model. *)

MaxCycles == 2

(* deque(maxlen=100) *)
HistoryMaxLen == 100

None == << >>

Some(v) == << v >>

-----------------------------------------------------------------------------
(* The configuration and the registry. *)

Entry(name, host, type, port) ==
    [name |-> name, host |-> host, type |-> type, port |-> port]

(* The target lists of targets.yaml the model runs on. The loader checks    *)
(* neither the type nor the port of an entry.                               *)
Configs ==
    { << Entry("gateway", "10.0.0.1", "ping", None),
         Entry("web", "example.org", "tcp", Some(80)) >>,
      << Entry("db", "10.0.0.5", "tcp", None),
         Entry("gateway", "10.0.0.1", "ping", None) >>,
      << Entry("api", "10.0.0.9", "http", Some(8080)),
         Entry("web", "example.org", "tcp", Some(80)) >> }

Target(name, host, type, port) ==
    [name |-> name, host |-> host, type |-> type, port |-> port,
     status |-> "UNKNOWN", last_rtt_ms |-> None, last_checked |-> None,
     last_error |-> None, history |-> << >>]

load_targets(conf) ==
    [i \in 1..Len(conf) |->
        Target(conf[i].name, conf[i].host, conf[i].type, conf[i].port)]

-----------------------------------------------------------------------------
(* deque.append on a deque of maxlen HistoryMaxLen: a full deque drops its  *)
(* oldest entry.                                                            *)

(* Mutant: the bound is tested one entry late. *)
deque_append_late(h, x) ==
    IF Len(h) > HistoryMaxLen THEN Append(Tail(h), x) ELSE Append(h, x)

deque_append(h, x) ==
    IF Len(h) >= HistoryMaxLen THEN Append(Tail(h), x) ELSE Append(h, x)

-----------------------------------------------------------------------------
(* The log. *)

Pad3(n) ==
    IF n < 10 THEN "00" \o ToString(n)
    ELSE IF n < 100 THEN "0" \o ToString(n)
    ELSE ToString(n)

(* f"{x:.3f}" of a latency of ns nanoseconds: milliseconds, to 3 decimals. *)
Fmt3(ns) ==
    LET q == (ns + 500) \div 1000
    IN  ToString(q \div 1000) \o "." \o Pad3(q % 1000)

(* x or "" for an optional number: None and 0 are both falsy. *)
PortField(port) ==
    IF port = None \/ port[1] = 0 THEN "" ELSE ToString(port[1])

RttField(rtt) == IF rtt # None THEN Fmt3(rtt[1]) ELSE ""

(* x or "" for an optional string: None and "" are both falsy. *)
ErrorField(err) == IF err = None THEN "" ELSE err[1]

HeaderRow ==
    [timestamp |-> "timestamp", name |-> "name", host |-> "host",
     type |-> "type", port |-> "port", status |-> "status",
     rtt_ms |-> "rtt_ms", error |-> "error"]

DataRow(target, now) ==
    [timestamp |-> ToString(now), name |-> target.name, host |-> target.host,
     type |-> target.type, port |-> PortField(target.port),
     status |-> target.status, rtt_ms |-> RttField(target.last_rtt_ms),
     error |-> ErrorField(target.last_error)]

(* How one call of log_result ends: it returns, or it raises before the    *)
(* file is opened (mkdir or open fails), or it raises after open created   *)
(* the file and before anything reached it (the write fails).              *)
LogModes == {"ok", "open_fails", "write_fails"}

(* Mutant: the header is written by every call. *)
log_result_header_each(f, target, now, mode) ==
    LET rows == << HeaderRow, DataRow(target, now) >>
    IN  CASE mode = "ok" ->
                [file |-> [exists |-> TRUE, rows |-> f.rows \o rows],
                 raised |-> FALSE]
          [] mode = "open_fails" ->
                [file |-> f, raised |-> TRUE]
          [] OTHER ->
                [file |-> [exists |-> TRUE, rows |-> f.rows],
                 raised |-> TRUE]

log_result(f, target, now, mode) ==
    LET is_new == ~f.exists
        rows == (IF is_new THEN << HeaderRow >> ELSE << >>)
                    \o << DataRow(target, now) >>
    IN  CASE mode = "ok" ->
                [file |-> [exists |-> TRUE, rows |-> f.rows \o rows],
                 raised |-> FALSE]
          [] mode = "open_fails" ->
                [file |-> f, raised |-> TRUE]
          [] OTHER ->
                [file |-> [exists |-> TRUE, rows |-> f.rows],
                 raised |-> TRUE]

-----------------------------------------------------------------------------
(* The probes. A probe takes the target, the log, what the network call    *)
(* did (res), the clock and how the log write ends; it gives the target    *)
(* and the log after it, and whether it raised.                            *)

PingReply(loss, rtt) ==
    [raised |-> FALSE, packet_loss |-> loss, avg_rtt |-> rtt, msg |-> ""]

PingError(msg) ==
    [raised |-> TRUE, packet_loss |-> 0, avg_rtt |-> 0, msg |-> msg]

(* What ping(host, count) does: a result whose loss is the share of the    *)
(* count requests left unanswered (avg_rtt is 0.0 when none was answered), *)
(* or an exception.                                                        *)
PingResults(count) ==
    { PingReply((100 * (count - k)) \div count,
                IF k = 0 THEN 0 ELSE 20500000) : k \in 0..count }
        \cup { PingError("Cannot resolve host"),
               PingError("Root privileges are required") }

(* Mutant: UP only when less than half of the requests were lost. *)
ping_try_half_lost(target, res) ==
    IF ~res.raised
    THEN LET status == IF res.packet_loss < 50 THEN "UP" ELSE "DOWN"
         IN  [target EXCEPT !.status = status,
                            !.last_rtt_ms = Some(res.avg_rtt),
                            !.last_error = None,
                            !.history = deque_append(@, status)]
    ELSE [target EXCEPT !.status = "DOWN",
                        !.last_rtt_ms = None,
                        !.last_error = Some(res.msg),
                        !.history = deque_append(@, "DOWN")]

(* Mutant: the except block stores the message in host. *)
ping_try_error_in_host(target, res) ==
    IF ~res.raised
    THEN LET status == IF res.packet_loss < 100 THEN "UP" ELSE "DOWN"
         IN  [target EXCEPT !.status = status,
                            !.last_rtt_ms = Some(res.avg_rtt),
                            !.last_error = None,
                            !.history = deque_append(@, status)]
    ELSE [target EXCEPT !.status = "DOWN",
                        !.last_rtt_ms = None,
                        !.host = res.msg,
                        !.history = deque_append(@, "DOWN")]

(* The try and except blocks of check_ping. *)
ping_try(target, res) ==
    IF ~res.raised
    THEN LET status == IF res.packet_loss < 100 THEN "UP" ELSE "DOWN"
         IN  [target EXCEPT !.status = status,
                            !.last_rtt_ms = Some(res.avg_rtt),
                            !.last_error = None,
                            !.history = deque_append(@, status)]
    ELSE [target EXCEPT !.status = "DOWN",
                        !.last_rtt_ms = None,
                        !.last_error = Some(res.msg),
                        !.history = deque_append(@, "DOWN")]

(* Mutant: last_checked is set after log_result, so not when it raises. *)
check_ping_checked_late(target, f, res, now, mode) ==
    LET tried == ping_try(target, res)
        logged == log_result(f, tried, now, mode)
    IN  [target |-> IF logged.raised THEN tried
                    ELSE [tried EXCEPT !.last_checked = Some(now)],
         file |-> logged.file, raised |-> logged.raised]

(* Mutant: the record is written before the target is updated. *)
check_ping_logs_first(target, f, res, now, mode) ==
    LET logged == log_result(f, target, now, mode)
    IN  [target |-> [ping_try(target, res) EXCEPT !.last_checked = Some(now)],
         file |-> logged.file, raised |-> logged.raised]

check_ping(target, f, res, now, mode) ==
    LET finally == [ping_try(target, res) EXCEPT !.last_checked = Some(now)]
        logged == log_result(f, finally, now, mode)
    IN  [target |-> finally, file |-> logged.file, raised |-> logged.raised]

TcpConnected(ns) == [raised |-> FALSE, elapsed_ns |-> ns, msg |-> ""]

TcpError(msg) == [raised |-> TRUE, elapsed_ns |-> 0, msg |-> msg]

(* What socket.create_connection does: it connects after some time, or it  *)
(* raises.                                                                 *)
TcpResults ==
    { TcpConnected(1234567),
      TcpError("timed out"), TcpError("Connection refused") }

(* No call of socket.create_connection. *)
NoConnection == [raised |-> FALSE, elapsed_ns |-> 0, msg |-> "not called"]

TcpResultsFor(target) ==
    IF target.port = None THEN {NoConnection} ELSE TcpResults

(* Mutant: the except block does not append to the history. *)
tcp_try_unrecorded(target, res) ==
    IF ~res.raised
    THEN [target EXCEPT !.status = "UP",
                        !.last_rtt_ms = Some(res.elapsed_ns),
                        !.last_error = None,
                        !.history = deque_append(@, "UP")]
    ELSE [target EXCEPT !.status = "DOWN",
                        !.last_rtt_ms = None,
                        !.last_error = Some(res.msg)]

(* The try and except blocks of check_tcp. *)
tcp_try(target, res) ==
    IF ~res.raised
    THEN [target EXCEPT !.status = "UP",
                        !.last_rtt_ms = Some(res.elapsed_ns),
                        !.last_error = None,
                        !.history = deque_append(@, "UP")]
    ELSE [target EXCEPT !.status = "DOWN",
                        !.last_rtt_ms = None,
                        !.last_error = Some(res.msg),
                        !.history = deque_append(@, "DOWN")]

(* Mutant: no test of the port before the connection attempt. *)
check_tcp_unguarded(target, f, res, now, mode) ==
    LET finally == [tcp_try(target, res) EXCEPT !.last_checked = Some(now)]
        logged == log_result(f, finally, now, mode)
    IN  [target |-> finally, file |-> logged.file,
         raised |-> logged.raised, connects |-> 1]

(* Mutant: the path of the missing port leaves last_checked alone. *)
check_tcp_port_unstamped(target, f, res, now, mode) ==
    IF target.port = None
    THEN LET t == [target EXCEPT !.status = "DOWN",
                                 !.last_error = Some("TCP check requires port"),
                                 !.history = deque_append(@, "DOWN")]
             logged == log_result(f, t, now, mode)
         IN  [target |-> t, file |-> logged.file, raised |-> logged.raised,
              connects |-> 0]
    ELSE LET finally == [tcp_try(target, res) EXCEPT
                            !.last_checked = Some(now)]
             logged == log_result(f, finally, now, mode)
         IN  [target |-> finally, file |-> logged.file,
              raised |-> logged.raised, connects |-> 1]

(* Mutant: a target that was probed before is left as it is. *)
check_tcp_once(target, f, res, now, mode) ==
    IF target.status # "UNKNOWN"
    THEN [target |-> target, file |-> f, raised |-> FALSE, connects |-> 0]
    ELSE LET finally == [tcp_try(target, res) EXCEPT
                            !.last_checked = Some(now)]
             logged == log_result(f, finally, now, mode)
         IN  [target |-> finally, file |-> logged.file,
              raised |-> logged.raised, connects |-> 1]

check_tcp(target, f, res, now, mode) ==
    IF target.port = None
    THEN LET t == [target EXCEPT !.status = "DOWN",
                                 !.last_error = Some("TCP check requires port"),
                                 !.last_checked = Some(now),
                                 !.history = deque_append(@, "DOWN")]
             logged == log_result(f, t, now, mode)
         IN  [target |-> t, file |-> logged.file, raised |-> logged.raised,
              connects |-> 0]
    ELSE LET finally == [tcp_try(target, res) EXCEPT !.last_checked = Some(now)]
             logged == log_result(f, finally, now, mode)
         IN  [target |-> finally, file |-> logged.file,
              raised |-> logged.raised, connects |-> 1]

-----------------------------------------------------------------------------
(* The state machine. Each step is written on the state as a record, so   *)
(* that a run can also be replayed as a function (Replay below).           *)

State ==
    [TARGETS |-> TARGETS, logFile |-> logFile, clock |-> clock, pc |-> pc,
     idx |-> idx, cycles |-> cycles, raised |-> raised, probed |-> probed,
     netcalls |-> netcalls, nprobes |-> nprobes, outcomes |-> outcomes,
     last |-> last, calls |-> calls, page |-> page, th |-> th, seen |-> seen,
     world |-> world]

Becomes(s) ==
    /\ TARGETS' = s.TARGETS
    /\ logFile' = s.logFile
    /\ clock' = s.clock
    /\ pc' = s.pc
    /\ idx' = s.idx
    /\ cycles' = s.cycles
    /\ raised' = s.raised
    /\ probed' = s.probed
    /\ netcalls' = s.netcalls
    /\ nprobes' = s.nprobes
    /\ outcomes' = s.outcomes
    /\ last' = s.last
    /\ calls' = s.calls
    /\ page' = s.page
    /\ th' = s.th
    /\ seen' = s.seen
    /\ world' = s.world

Starts(s) ==
    /\ TARGETS = s.TARGETS
    /\ logFile = s.logFile
    /\ clock = s.clock
    /\ pc = s.pc
    /\ idx = s.idx
    /\ cycles = s.cycles
    /\ raised = s.raised
    /\ probed = s.probed
    /\ netcalls = s.netcalls
    /\ nprobes = s.nprobes
    /\ outcomes = s.outcomes
    /\ last = s.last
    /\ calls = s.calls
    /\ page = s.page
    /\ th = s.th
    /\ seen = s.seen
    /\ world = s.world

NoProbe ==
    [idx |-> 0, kind |-> "none", res |-> << >>, mode |-> "ok", now |-> 0,
     before |-> << >>, file |-> << >>]

(* The process after the module is loaded: TARGETS = load_targets(), no    *)
(* log yet.                                                                *)
(* The threads that serve requests to index at the same time. *)
Threads == {"req1", "req2"}

(* A thread that has not entered index: at is where it is, i the position  *)
(* of its for loop, res what its network call did, todo the source lines   *)
(* its probe has yet to execute, is_new the local of log_result, logs the  *)
(* calls of log_result it has finished.                                    *)
Waiting ==
    [at |-> "start", i |-> 1, res |-> NoConnection, todo |-> << >>,
     is_new |-> FALSE, logs |-> 0]

Loaded(conf, w) ==
    [TARGETS |-> load_targets(conf),
     logFile |-> [exists |-> FALSE, rows |-> << >>],
     clock |-> 0, pc |-> "idle", idx |-> 1, cycles |-> 0, raised |-> FALSE,
     probed |-> << >>,
     netcalls |-> [i \in 1..Len(conf) |-> 0],
     nprobes |-> [returned |-> 0, raised |-> 0],
     outcomes |-> [i \in 1..Len(conf) |-> << >>],
     last |-> NoProbe, calls |-> << >>, page |-> << >>,
     th |-> [t \in Threads |-> Waiting], seen |-> << >>, world |-> w]

(* The two newest entries of a sequence with one more. *)
Keep2(seq, x) ==
    IF Len(seq) = 0 THEN << x >> ELSE << seq[Len(seq)], x >>

(* The call of run_one_cycle has ended: the state it leaves. *)
Ended(call, s, exc) ==
    [call EXCEPT !.ended = TRUE, !.raised = exc, !.TARGETS = s.TARGETS,
                 !.rows = Len(s.logFile.rows)]

(* index (and main) call run_one_cycle. *)
IndexStep(s) ==
    [s EXCEPT !.pc = "cycle", !.idx = 1, !.cycles = @ + 1, !.raised = FALSE,
              !.probed = << >>,
              !.calls = Keep2(@, [inputs |-> << >>, ended |-> FALSE,
                                  raised |-> FALSE, TARGETS |-> << >>,
                                  rows |-> 0])]

(* What a probe of the target at idx leaves: out is what the probe gave,   *)
(* n the network calls it made. An exception leaves the for loop and       *)
(* run_one_cycle; otherwise the loop goes on to the next target.           *)
ProbeStep(s, kind, res, now, mode, out, n) ==
    LET after == [s EXCEPT !.TARGETS[s.idx] = out.target,
                           !.logFile = out.file]
        call == [s.calls[Len(s.calls)] EXCEPT
                    !.inputs = Append(@, [idx |-> s.idx, res |-> res])]
    IN
    [s EXCEPT !.TARGETS[s.idx] = out.target,
              !.calls[Len(s.calls)] =
                    IF out.raised THEN Ended(call, after, TRUE) ELSE call,
              !.logFile = out.file,
              !.clock = now,
              !.probed = Append(@, s.idx),
              !.netcalls[s.idx] = @ + n,
              !.outcomes[s.idx] = Append(@, out.target.status),
              !.last = [idx |-> s.idx, kind |-> kind, res |-> res,
                        mode |-> mode, now |-> now,
                        before |-> s.TARGETS[s.idx], file |-> s.logFile],
              !.pc = IF out.raised THEN "idle" ELSE "cycle",
              !.raised = out.raised,
              !.idx = IF out.raised THEN @ ELSE @ + 1,
              !.nprobes = IF out.raised
                          THEN [@ EXCEPT !.raised = @ + 1]
                          ELSE [@ EXCEPT !.returned = @ + 1]]

(* if t.type == "ping": check_ping(t) *)
PingStep(s, res, now, mode) ==
    ProbeStep(s, "ping", res, now, mode,
              check_ping(s.TARGETS[s.idx], s.logFile, res, now, mode), 1)

(* elif t.type == "tcp": check_tcp(t) *)
TcpStep(s, res, now, mode) ==
    LET out == check_tcp(s.TARGETS[s.idx], s.logFile, res, now, mode)
    IN  ProbeStep(s, "tcp", res, now, mode, out, out.connects)

(* Mutant: elif became else, a target of another type is probed as tcp. *)
SkipStep_else_tcp(s) == TcpStep(s, TcpError("timed out"), s.clock, "ok")

(* A target of any other type: neither branch is taken. *)
SkipStep(s) == [s EXCEPT !.idx = @ + 1]

(* Mutant: the share of the capacity of the history, not of its length. *)
uptime_percent_of_capacity(target) ==
    IF target.history = << >>
    THEN [num |-> 0, den |-> 1]
    ELSE [num |-> Cardinality({k \in 1..Len(target.history) :
                                    target.history[k] = "UP"}) * 100,
          den |-> HistoryMaxLen]

(* sum(1 for s in target.history if s == "UP") *)
IsUp(status) == status = "UP"

(* uptime_percent: the percentage, as the fraction num / den. *)
uptime_percent(target) ==
    IF target.history = << >>
    THEN [num |-> 0, den |-> 1]
    ELSE LET up == Len(SelectSeq(target.history, IsUp))
         IN  [num |-> up * 100, den |-> Len(target.history)]

(* render_template_string(TEMPLATE, targets=TARGETS, uptime_percent=...) *)
Render(targets) ==
    [i \in 1..Len(targets) |->
        [target |-> targets[i], uptime |-> uptime_percent(targets[i])]]

(* The for loop is over: run_one_cycle returns, and index renders the page. *)
EndStep(s) ==
    [s EXCEPT !.pc = "idle",
              !.calls[Len(s.calls)] = Ended(@, s, FALSE),
              !.page = Render(s.TARGETS)]

-----------------------------------------------------------------------------
(* The actions. *)

AnyWorld ==
    [modes |-> LogModes, ticks |-> {0, 1}, until |-> MaxCycles, counts |-> {1}]

Init == \E conf \in Configs : Starts(Loaded(conf, AnyWorld))

Index ==
    /\ pc = "idle"
    /\ cycles < world.until
    /\ Becomes(IndexStep(State))

LoopPing ==
    /\ pc = "cycle"
    /\ idx <= Len(TARGETS)
    /\ TARGETS[idx].type = "ping"
    /\ \E count \in world.counts :
          \E res \in PingResults(count), tick \in world.ticks,
             mode \in world.modes :
             Becomes(PingStep(State, res, clock + tick, mode))

LoopTcp ==
    /\ pc = "cycle"
    /\ idx <= Len(TARGETS)
    /\ TARGETS[idx].type = "tcp"
    /\ \E res \in TcpResultsFor(TARGETS[idx]), tick \in world.ticks,
          mode \in world.modes :
          Becomes(TcpStep(State, res, clock + tick, mode))

LoopSkip ==
    /\ pc = "cycle"
    /\ idx <= Len(TARGETS)
    /\ TARGETS[idx].type \notin {"ping", "tcp"}
    /\ Becomes(SkipStep(State))

LoopEnd ==
    /\ pc = "cycle"
    /\ idx > Len(TARGETS)
    /\ Becomes(EndStep(State))

Next == Index \/ LoopPing \/ LoopTcp \/ LoopSkip \/ LoopEnd

Spec == Init /\ [][Next]_vars

-----------------------------------------------------------------------------
(* A process that has already run cycles: the state that calls of         *)
(* run_one_cycle leave, every log write succeeding and the clock standing. *)

ReplayTurn(s, ping, tcp) ==
    LET t == s.TARGETS[s.idx]
    IN  CASE t.type = "ping" -> PingStep(s, ping, s.clock, "ok")
          [] t.type = "tcp" ->
                TcpStep(s, IF t.port = None THEN NoConnection ELSE tcp,
                        s.clock, "ok")
          [] OTHER -> SkipStep(s)

RECURSIVE ReplayLoop(_, _, _)
ReplayLoop(s, ping, tcp) ==
    IF s.idx > Len(s.TARGETS)
    THEN EndStep(s)
    ELSE ReplayLoop(ReplayTurn(s, ping, tcp), ping, tcp)

(* n calls of run_one_cycle in a row, each seeing the results of with; the *)
(* run is cut in halves to keep the evaluation shallow.                    *)
RECURSIVE Replay(_, _, _)
Replay(s, n, with) ==
    IF n = 0 THEN s
    ELSE IF n = 1 THEN ReplayLoop(IndexStep(s), with.ping, with.tcp)
    ELSE LET half == Replay(s, n \div 2, with)
         IN  IF half.pc = "idle"
             THEN Replay(half, n - (n \div 2), with)
             ELSE half

AllUp == [ping |-> PingReply(0, 20500000), tcp |-> TcpConnected(1234567)]

AllDown == [ping |-> PingError("Cannot resolve host"),
            tcp |-> TcpError("timed out")]

(* The rest of the run has a disk that works and a clock that stands.      *)
QuietWorld ==
    [modes |-> {"ok"}, ticks |-> {0},
     until |-> (HistoryMaxLen - 1) + MaxCycles, counts |-> {1}]

(* Every history one entry short of full. *)
InitHist ==
    \E conf \in Configs, first \in {AllUp, AllDown}, rest \in {AllUp, AllDown} :
        Starts(Replay(Replay(Loaded(conf, QuietWorld), 1, first),
                      HistoryMaxLen - 2, rest))

SpecHist == InitHist /\ [][Next]_vars

-----------------------------------------------------------------------------
(* A process that has served a few requests, each cycle all up or all     *)
(* down, and goes on in a quiet world.                                     *)

MaxPast == 3

PastRuns == UNION { [1..k -> {AllUp, AllDown}] : k \in 0..MaxPast }

RECURSIVE ReplayPast(_, _)
ReplayPast(s, runs) ==
    IF runs = << >> THEN s
    ELSE ReplayPast(Replay(s, 1, Head(runs)), Tail(runs))

PastWorld(k) ==
    [modes |-> {"ok"}, ticks |-> {0}, until |-> k + MaxCycles, counts |-> {1}]

InitPast ==
    \E conf \in Configs, runs \in PastRuns :
        Starts(ReplayPast(Loaded(conf, PastWorld(Len(runs))), runs))

SpecPast == InitPast /\ [][Next]_vars

-----------------------------------------------------------------------------
(* check_ping called with other values of its parameter count than the    *)
(* default, so that a part of the requests can be lost.                    *)

PingCounts == {1, 2, 4}

PingWorld ==
    [modes |-> {"ok"}, ticks |-> {0}, until |-> MaxCycles,
     counts |-> PingCounts]

InitPing == \E conf \in Configs : Starts(Loaded(conf, PingWorld))

SpecPing == InitPing /\ [][Next]_vars

-----------------------------------------------------------------------------
(* Every history one entry short of full, and a disk that may fail from    *)
(* then on.                                                                *)

FailingDiskWorld ==
    [modes |-> LogModes, ticks |-> {0},
     until |-> (HistoryMaxLen - 1) + MaxCycles, counts |-> {1}]

InitHistLog ==
    \E conf \in Configs, first \in {AllUp, AllDown}, rest \in {AllUp, AllDown} :
        Starts(Replay(Replay(Loaded(conf, FailingDiskWorld), 1, first),
                      HistoryMaxLen - 2, rest))

SpecHistLog == InitHistLog /\ [][Next]_vars

-----------------------------------------------------------------------------
(* Vocabulary of the properties. *)

Positions == 1..Len(TARGETS)

AllPositions == [i \in Positions |-> i]

IsData(row) == row # HeaderRow

DataRows(rows) == SelectSeq(rows, IsData)

IsHeader(row) == row = HeaderRow

HeaderRows(rows) == SelectSeq(rows, IsHeader)

(* The newest n entries of a sequence. *)
Newest(seq, n) ==
    IF Len(seq) <= n THEN seq ELSE SubSeq(seq, Len(seq) - n + 1, Len(seq))

Probed == last.kind # "none"

(* A call of run_one_cycle has ended (returned or raised). *)
CycleEnded == pc = "idle" /\ cycles > 0

-----------------------------------------------------------------------------
(* C1: one call of run_one_cycle probes every target of TARGETS exactly    *)
(* once, in list order, whatever each probe's outcome.                     *)
C1_EveryTargetProbedOnceInOrder == CycleEnded => probed = AllPositions

(* C2: after a completed call of run_one_cycle every target of the         *)
(* registry has status UP or DOWN, none is still UNKNOWN.                  *)
C2_NoUnknownAfterCycle ==
    (CycleEnded /\ ~raised) =>
        \A i \in Positions : TARGETS[i].status \in {"UP", "DOWN"}

(* C3: a target whose status is DOWN or UNKNOWN has no last_rtt_ms.        *)
C3_DownHasNoLatency ==
    \A i \in Positions :
        TARGETS[i].status \in {"DOWN", "UNKNOWN"} =>
            TARGETS[i].last_rtt_ms = None

(* C4: a log write that fails during a probe does not abort the cycle: no  *)
(* exception leaves run_one_cycle and the remaining targets are probed.    *)
C4_LogFailureDoesNotAbortCycle ==
    (Probed /\ last.mode # "ok") =>
        /\ ~raised
        /\ pc = "idle" => probed = AllPositions

(* What the last probe's inputs make of the target. *)
ProbeStatus ==
    IF last.kind = "tcp" /\ last.before.port = None THEN "DOWN"
    ELSE IF last.res.raised THEN "DOWN"
    ELSE IF last.kind = "ping" /\ last.res.packet_loss >= 100 THEN "DOWN"
    ELSE "UP"

ProbeError ==
    IF last.kind = "tcp" /\ last.before.port = None
    THEN Some("TCP check requires port")
    ELSE IF last.res.raised THEN Some(last.res.msg) ELSE None

(* The last probe, run again from the same state with a log write that     *)
(* succeeds.                                                               *)
ProbeWithLog ==
    IF last.kind = "ping"
    THEN check_ping(last.before, last.file, last.res, last.now, "ok")
    ELSE check_tcp(last.before, last.file, last.res, last.now, "ok")

(* C5: when the log write of a probe fails, the target is still updated    *)
(* in full: status, last_rtt_ms, last_error, last_checked and the new      *)
(* history entry are those of the probe, as if the write had succeeded.    *)
C5_StateUpdatedWhenLogFails ==
    (Probed /\ last.mode # "ok") =>
        LET t == TARGETS[last.idx]
        IN  /\ t = ProbeWithLog.target
            /\ t.status = ProbeStatus
            /\ t.last_error = ProbeError
            /\ t.status = "UP" => t.last_rtt_ms # None
            /\ t.last_checked = Some(last.now)
            /\ t.history =
                  Newest(Append(last.before.history, ProbeStatus), HistoryMaxLen)

C5_Witness ==
    /\ Probed
    /\ last.mode # "ok"
    /\ last.before.status = "UP"
    /\ TARGETS[last.idx].status = "DOWN"
    /\ last.before.last_checked # Some(last.now)

(* C6: a tcp target without a port is set to DOWN with the error "TCP      *)
(* check requires port" each time it is probed, no connection is ever      *)
(* attempted for it, and the probe still appends one history entry and     *)
(* writes one log record.                                                  *)
C6_TcpWithoutPort ==
    /\ \A i \in Positions :
          (TARGETS[i].type = "tcp" /\ TARGETS[i].port = None) =>
              /\ netcalls[i] = 0
              /\ \A k \in 1..Len(outcomes[i]) : outcomes[i][k] = "DOWN"
    /\ (Probed /\ last.kind = "tcp" /\ last.before.port = None) =>
          LET t == TARGETS[last.idx]
          IN  /\ t.status = "DOWN"
              /\ t.last_error = Some("TCP check requires port")
              /\ t.history =
                    Newest(Append(last.before.history, "DOWN"), HistoryMaxLen)
              /\ last.mode = "ok" =>
                    /\ Len(DataRows(logFile.rows))
                          = Len(DataRows(last.file.rows)) + 1
                    /\ logFile.rows[Len(logFile.rows)].name = t.name
                    /\ logFile.rows[Len(logFile.rows)].status = "DOWN"
                    /\ logFile.rows[Len(logFile.rows)].error
                          = "TCP check requires port"

C6_Witness ==
    /\ Probed
    /\ last.kind = "tcp"
    /\ last.before.port = None
    /\ last.mode = "ok"
    /\ Len(outcomes[last.idx]) = 2
    /\ Len(logFile.rows) > 2

(* C7: a history never holds more than 100 entries; a full history drops   *)
(* its oldest entry on an append and keeps the others in order, so that    *)
(* after 101 outcomes it holds outcomes 2 to 101.                          *)
C7_HistoryBoundedFifo ==
    /\ \A i \in Positions :
          /\ Len(TARGETS[i].history) <= HistoryMaxLen
          /\ TARGETS[i].history = Newest(outcomes[i], HistoryMaxLen)
    /\ (Probed /\ Len(last.before.history) = HistoryMaxLen) =>
          TARGETS[last.idx].history
              = Append(Tail(last.before.history), TARGETS[last.idx].status)

C7_Witness ==
    \E i \in Positions :
        /\ Len(outcomes[i]) = HistoryMaxLen + 1
        /\ outcomes[i][1] # outcomes[i][2]
        /\ TARGETS[i].history = SubSeq(outcomes[i], 2, HistoryMaxLen + 1)
        /\ TARGETS[i].history[HistoryMaxLen] # TARGETS[i].history[1]

C9_RecordMatchesTarget ==
    (Probed /\ last.mode = "ok") =>
        LET t == TARGETS[last.idx]
            r == logFile.rows[Len(logFile.rows)]
        IN  /\ r.name = t.name
            /\ r.host = t.host
            /\ r.type = t.type
            /\ r.status = t.status
            /\ r.status = ProbeStatus
            /\ r.rtt_ms = (IF t.last_rtt_ms = None THEN ""
                           ELSE Fmt3(t.last_rtt_ms[1]))
            /\ r.error = (IF t.last_error = None THEN "" ELSE t.last_error[1])
            /\ r.error = (IF ProbeError = None THEN "" ELSE ProbeError[1])

C9_Witness ==
    /\ Probed
    /\ last.mode = "ok"
    /\ last.before.status = "UP"
    /\ last.before.last_rtt_ms = Some(1234567)
    /\ logFile.rows[Len(logFile.rows)].status = "DOWN"
    /\ logFile.rows[Len(logFile.rows)].rtt_ms = ""
    /\ logFile.rows[Len(logFile.rows)].error = "timed out"
    /\ \E k \in 1..Len(logFile.rows) : logFile.rows[k].rtt_ms = "1.235"

(* C10: in every log record rtt_ms is empty unless the record's status is  *)
(* UP.                                                                     *)
C10_LatencyOnlyWhenUp ==
    \A k \in 1..Len(logFile.rows) :
        (IsData(logFile.rows[k]) /\ logFile.rows[k].status # "UP") =>
            logFile.rows[k].rtt_ms = ""

(* C11: a ping probe that fails in any way (an exception, or every sample *)
(* lost) leaves the target DOWN, without last_rtt_ms and with a message in *)
(* last_error.                                                             *)
C11_PingFailureRecorded ==
    (Probed /\ last.kind = "ping"
        /\ (last.res.raised \/ last.res.packet_loss >= 100)) =>
        LET t == TARGETS[last.idx]
        IN  /\ t.status = "DOWN"
            /\ t.last_rtt_ms = None
            /\ t.last_error # None
            /\ t.last_error # Some("")

-----------------------------------------------------------------------------
(* Concurrent requests. Each request to index runs run_one_cycle in its    *)
(* own thread on the shared TARGETS and the shared log; threads switch     *)
(* between statements, so a probe is here a list of source lines that the  *)
(* thread executes one at a time.                                          *)

(* log_result: the test of existence, the open that creates the file, and  *)
(* the rows that reach the file when the with block closes it.             *)
log_lines == << 66, 67, 95 >>

(* The lines check_ping executes after ping(...) returned or raised. *)
ping_lines(res) ==
    (IF ~res.raised THEN << 108, 109, 110, 111 >> ELSE << 113, 114, 115, 116 >>)
        \o << 118 >> \o log_lines

(* The lines check_tcp executes, after create_connection if it calls it. *)
tcp_lines(target, res) ==
    IF target.port = None
    THEN << 126, 127, 128, 129 >> \o log_lines
    ELSE (IF ~res.raised THEN << 137, 138, 139, 140 >>
          ELSE << 142, 143, 144, 145 >>) \o << 147 >> \o log_lines

(* What the statement at a line does to the target. *)
Assign(target, line, res, now) ==
    CASE line = 108 ->
            [target EXCEPT !.status =
                IF res.packet_loss < 100 THEN "UP" ELSE "DOWN"]
      [] line = 109 -> [target EXCEPT !.last_rtt_ms = Some(res.avg_rtt)]
      [] line = 137 -> [target EXCEPT !.status = "UP"]
      [] line = 138 -> [target EXCEPT !.last_rtt_ms = Some(res.elapsed_ns)]
      [] line \in {110, 139} -> [target EXCEPT !.last_error = None]
      [] line \in {113, 126, 142} -> [target EXCEPT !.status = "DOWN"]
      [] line \in {114, 143} -> [target EXCEPT !.last_rtt_ms = None]
      [] line \in {115, 144} -> [target EXCEPT !.last_error = Some(res.msg)]
      [] line = 127 ->
            [target EXCEPT !.last_error = Some("TCP check requires port")]
      [] line \in {111, 116, 129, 140, 145} ->
            [target EXCEPT !.history = deque_append(@, target.status)]
      [] line \in {118, 128, 147} ->
            [target EXCEPT !.last_checked = Some(now)]
      [] OTHER -> target

(* What the statement at a line does to the log. *)
Write(f, line, is_new, target, now) ==
    CASE line = 67 -> [f EXCEPT !.exists = TRUE]
      [] line = 95 ->
            [f EXCEPT !.rows = @ \o (IF is_new THEN << HeaderRow >> ELSE << >>)
                                  \o << DataRow(target, now) >>]
      [] OTHER -> f

ConcWorld ==
    [modes |-> {"ok"}, ticks |-> {0}, until |-> 0, counts |-> {1}]

InitConc == \E conf \in Configs : Starts(Loaded(conf, ConcWorld))

Concurrent(t, me) ==
    /\ th' = [th EXCEPT ![t] = me]
    /\ UNCHANGED << pc, idx, cycles, raised, probed, netcalls, nprobes,
                    outcomes, last, calls, page, world >>

(* A request arrives: index calls run_one_cycle. *)
Enter(t) ==
    /\ th[t].at = "start"
    /\ Concurrent(t, [th[t] EXCEPT !.at = "loop", !.i = 1])
    /\ UNCHANGED << TARGETS, logFile, clock, seen >>

(* The for loop of run_one_cycle: the next target, and the network call of *)
(* its probe; after the last target the thread goes on to render.          *)
Dispatch(t) ==
    /\ th[t].at = "loop"
    /\ UNCHANGED << TARGETS, logFile, clock, seen >>
    /\ IF th[t].i > Len(TARGETS)
       THEN Concurrent(t, [th[t] EXCEPT !.at = "render"])
       ELSE LET target == TARGETS[th[t].i]
            IN  CASE target.type = "ping" ->
                       \E count \in world.counts :
                          \E res \in PingResults(count) :
                             Concurrent(t, [th[t] EXCEPT !.at = "probe",
                                               !.res = res,
                                               !.todo = ping_lines(res)])
                  [] target.type = "tcp" ->
                       \E res \in TcpResultsFor(target) :
                          Concurrent(t, [th[t] EXCEPT !.at = "probe",
                                            !.res = res,
                                            !.todo = tcp_lines(target, res)])
                  [] OTHER ->
                       Concurrent(t, [th[t] EXCEPT !.i = @ + 1])

(* The thread executes the next statement of its probe. *)
Exec(t) ==
    /\ th[t].at = "probe"
    /\ \E tick \in world.ticks :
          LET me == th[t]
              line == Head(me.todo)
              now == clock + tick
              isLast == Len(me.todo) = 1
          IN  /\ clock' = now
              /\ TARGETS' = [TARGETS EXCEPT
                                ![me.i] = Assign(@, line, me.res, now)]
              /\ logFile' = Write(logFile, line, me.is_new,
                                  TARGETS[me.i], now)
              /\ Concurrent(t,
                    [me EXCEPT !.todo = Tail(@),
                               !.is_new = IF line = 66 THEN ~logFile.exists
                                          ELSE @,
                               !.logs = IF isLast THEN @ + 1 ELSE @,
                               !.at = IF isLast THEN "loop" ELSE @,
                               !.i = IF isLast THEN @ + 1 ELSE @])
    /\ UNCHANGED seen

(* index renders the page: the thread reads the targets. *)
View(t) ==
    /\ th[t].at = "render"
    /\ seen' = TARGETS
    /\ Concurrent(t, [th[t] EXCEPT !.at = "done"])
    /\ UNCHANGED << TARGETS, logFile, clock >>

NextConc ==
    \E t \in Threads : Enter(t) \/ Dispatch(t) \/ Exec(t) \/ View(t)

SpecConc == InitConc /\ [][NextConc]_vars

AllDone == \A t \in Threads : th[t].at = "done"

(* C12: while requests overlap, no reader of the targets sees a target UP  *)
(* with a last_error, nor DOWN with a latency left by an earlier success   *)
(* (a latency of 0 is what the probe that found it down stored itself).    *)
C12_ObserverSeesWholeProbes ==
    \A i \in DOMAIN seen :
        /\ seen[i].status = "UP" => seen[i].last_error = None
        /\ seen[i].status = "DOWN" =>
                seen[i].last_rtt_ms \in {None, Some(0)}

(* C13: when the overlapping cycles are over, the log holds one data       *)
(* record per finished call of log_result, and exactly one header row.     *)
C13_LogSafeUnderConcurrency ==
    AllDone =>
        LET m == th["req1"].logs + th["req2"].logs
        IN  /\ Len(DataRows(logFile.rows)) = m
            /\ m > 0 => Len(HeaderRows(logFile.rows)) = 1

(* The entries of a history that are UP. *)
UpEntries(h) == Cardinality({k \in 1..Len(h) : h[k] = "UP"})

(* C14: uptime_percent is 0 on an empty history, otherwise 100 times the   *)
(* UP entries over the length of the history (75 for UP, UP, DOWN, UP),    *)
(* and always between 0 and 100. The percentage is the exact fraction      *)
(* num / den.                                                             *)
C14_UptimePercent ==
    \A i \in DOMAIN page :
        LET h == page[i].target.history
            u == page[i].uptime
        IN  /\ u.den > 0
            /\ h = << >> => u.num = 0
            /\ h # << >> => u.num * Len(h) = 100 * UpEntries(h) * u.den
            /\ h = << "UP", "UP", "DOWN", "UP" >> => u.num = 75 * u.den
            /\ 0 <= u.num /\ u.num <= 100 * u.den

C14_Witness ==
    /\ \E i \in DOMAIN page :
          /\ page[i].target.history = << "UP", "UP", "DOWN", "UP" >>
          /\ page[i].uptime.num = 75 * page[i].uptime.den
    /\ \E i \in DOMAIN page :
          /\ page[i].target.history = << >>
          /\ page[i].uptime.num = 0

(* Two calls of run_one_cycle in a row have ended, and the probes of the   *)
(* second saw the results that the probes of the first saw.                *)
RanTwiceAlike ==
    /\ Len(calls) = 2
    /\ calls[1].ended /\ calls[2].ended
    /\ calls[1].inputs = calls[2].inputs

(* The positions a call probed. *)
ProbedBy(call) == { call.inputs[k].idx : k \in DOMAIN call.inputs }

(* C15, as stated: run_one_cycle is idempotent, a second run with the same *)
(* probe outcomes leaves the state (the targets, the log) of the first.    *)
C15_Idempotent ==
    (RanTwiceAlike /\ ~calls[1].raised /\ ~calls[2].raised) =>
        /\ calls[2].TARGETS = calls[1].TARGETS
        /\ calls[2].rows = calls[1].rows

(* C15, amended: a second run with the same probe outcomes leaves every    *)
(* target's status, last_rtt_ms and last_error as the first run left them; *)
(* it appends one more entry to the history of every target it probed,     *)
(* never moves last_checked back, and when both runs return it adds one    *)
(* log record per probe.                                                   *)
C15_SecondRunRepeatsVerdicts ==
    RanTwiceAlike =>
        /\ \A i \in DOMAIN calls[1].TARGETS :
              LET t1 == calls[1].TARGETS[i]
                  t2 == calls[2].TARGETS[i]
              IN  /\ t2.status = t1.status
                  /\ t2.last_rtt_ms = t1.last_rtt_ms
                  /\ t2.last_error = t1.last_error
                  /\ t2.history =
                        IF i \in ProbedBy(calls[2])
                        THEN deque_append(t1.history, t1.status)
                        ELSE t1.history
                  /\ \/ t2.last_checked = t1.last_checked
                     \/ /\ t1.last_checked # None
                        /\ t2.last_checked # None
                        /\ t1.last_checked[1] <= t2.last_checked[1]
        /\ calls[1].rows <= calls[2].rows
        /\ (~calls[1].raised /\ ~calls[2].raised) =>
                calls[2].rows = calls[1].rows + Len(calls[2].inputs)

C15_Witness ==
    /\ RanTwiceAlike
    /\ ~calls[1].raised /\ ~calls[2].raised
    /\ Len(calls[2].inputs) = 2
    /\ calls[2].TARGETS # calls[1].TARGETS
    /\ calls[2].TARGETS[1].last_checked # calls[1].TARGETS[1].last_checked
    /\ Len(calls[2].TARGETS[1].history) = 2

(* C16: every probe, whatever its outcome, sets last_checked to the time   *)
(* it completed, never earlier than the value it replaces; so from one     *)
(* cycle to the next no target's last_checked decreases.                   *)
C16_LastCheckedAdvances ==
    /\ Probed =>
          /\ TARGETS[last.idx].last_checked = Some(last.now)
          /\ last.before.last_checked # None =>
                last.before.last_checked[1] <= last.now
    /\ (Len(calls) = 2 /\ calls[1].ended /\ calls[2].ended) =>
          \A i \in DOMAIN calls[1].TARGETS :
              LET c1 == calls[1].TARGETS[i].last_checked
                  c2 == calls[2].TARGETS[i].last_checked
              IN  c1 # None => (c2 # None /\ c1[1] <= c2[1])

C16_Witness ==
    /\ Probed
    /\ last.kind = "tcp" /\ last.before.port = None
    /\ last.before.last_checked # None
    /\ last.before.last_checked[1] < last.now
    /\ TARGETS[last.idx].last_checked = Some(last.now)
    /\ last.mode # "ok"

(* The registry: the members of a list of targets, in order, each with its *)
(* name, host, type and port.                                              *)
Identity(targets) ==
    [i \in DOMAIN targets |->
        [name |-> targets[i].name, host |-> targets[i].host,
         type |-> targets[i].type, port |-> targets[i].port]]

(* C17: no step of a cycle (a probe with its log record, the end of the    *)
(* loop with the rendering of the page) changes the list TARGETS or the    *)
(* name, host, type or port of a target.                                   *)
C17_RegistryUnchanged == [][Identity(TARGETS') = Identity(TARGETS)]_vars

C17_Witness ==
    /\ CycleEnded /\ cycles = 2
    /\ Identity(TARGETS) \in Configs
    /\ Identity(<< last.before >>)[1] = Identity(TARGETS)[last.idx]
    /\ \E i \in Positions : Len(TARGETS[i].history) = 2
    /\ \E i \in DOMAIN page : page[i].uptime.num > 0
    /\ Len(logFile.rows) > 2

(* C18: a ping probe that returns without raising sets UP exactly when the *)
(* loss is below 100 percent, and DOWN exactly when it is 100 percent,     *)
(* however many of the requests were lost.                                 *)
C18_UpIffSomeReply ==
    (Probed /\ last.kind = "ping" /\ ~last.res.raised) =>
        LET t == TARGETS[last.idx]
        IN  /\ t.status = "UP" <=> last.res.packet_loss < 100
            /\ t.status = "DOWN" <=> last.res.packet_loss = 100

C18_Witness ==
    /\ Probed /\ last.kind = "ping" /\ ~last.res.raised
    /\ last.res.packet_loss = 75
    /\ TARGETS[last.idx].status = "UP"
    /\ last.before.status = "DOWN"

(* C19: every probe, on every path, appends exactly one entry to the       *)
(* history of its target, the status it assigned: the newest entry is the  *)
(* status of the target, and the history is one entry longer than before   *)
(* until it holds HistoryMaxLen entries.                                   *)
C19_ProbeAppendsItsStatus ==
    Probed =>
        LET t == TARGETS[last.idx]
            b == last.before
        IN  /\ t.history = Newest(Append(b.history, t.status), HistoryMaxLen)
            /\ t.history[Len(t.history)] = t.status
            /\ Len(t.history) = IF Len(b.history) < HistoryMaxLen
                                THEN Len(b.history) + 1 ELSE HistoryMaxLen
            /\ t.history = Newest(outcomes[last.idx], HistoryMaxLen)

C19_Witness ==
    /\ Probed /\ last.kind = "tcp" /\ last.res.raised
    /\ last.mode = "write_fails"
    /\ Len(last.before.history) = HistoryMaxLen
    /\ last.before.history[1] = "UP"
    /\ Len(outcomes[last.idx]) = HistoryMaxLen + 1
    /\ TARGETS[last.idx].history[HistoryMaxLen] = "DOWN"

(* C20: a target whose type is neither ping nor tcp is skipped by every    *)
(* cycle, without an error: it stays UNKNOWN, with an empty history, no    *)
(* last_checked, no network call and no log record.                        *)
C20_OtherTypeSkipped ==
    \A i \in Positions :
        TARGETS[i].type \notin {"ping", "tcp"} =>
            /\ TARGETS[i].status = "UNKNOWN"
            /\ TARGETS[i].history = << >>
            /\ TARGETS[i].last_checked = None
            /\ TARGETS[i].last_rtt_ms = None
            /\ TARGETS[i].last_error = None
            /\ netcalls[i] = 0
            /\ outcomes[i] = << >>
            /\ \A k \in DOMAIN probed : probed[k] # i
            /\ last.idx # i
            /\ \A k \in DOMAIN logFile.rows :
                    logFile.rows[k].name # TARGETS[i].name

C20_Witness ==
    /\ CycleEnded /\ cycles = 2 /\ ~raised
    /\ \E i \in Positions : TARGETS[i].type = "http"
    /\ Len(DataRows(logFile.rows)) = 2
    /\ \E i \in DOMAIN page :
          page[i].target.type = "http" /\ page[i].target.status = "UNKNOWN"
=============================================================================
